---------------------------- MODULE Spec2Model ----------------------------
(***************************************************************************)
(* A model of the decision-tree code of the repository:                    *)
(*   - the classification helpers, DecisionTree and RandomForestClassifier *)
(*     of the random-forest notebook (src/unnamed/part_000), and           *)
(*   - RegressionDecisionTree of                                           *)
(*     src/supervised_learning/regression_decision_trees.ipynb.            *)
(*                                                                         *)
(* Conventions.                                                            *)
(*   - A feature matrix X is a sequence of rows, a row a sequence of       *)
(*     feature values; y is a sequence of labels (targets).  Python's      *)
(*     0-based positions i are the 1-based positions i+1 here; feature     *)
(*     indices and class identifiers keep their 0-based values.            *)
(*   - Python values of different types that one field can hold (None, a   *)
(*     number, a dict) are records tagged by "kind".                       *)
(*   - Feature values, labels and targets are small integers.  Float       *)
(*     quantities computed from them (Gini impurity, means, squared        *)
(*     errors) are exact rationals [num, den]; IEEE rounding is not        *)
(*     modelled.                                                           *)
(*   - A raised exception is the name of its class in "raised" ("" when    *)
(*     the call returned).                                                 *)
(***************************************************************************)
EXTENDS Integers, Sequences, FiniteSets, TLC

VARIABLES
    dt,     \* the DecisionTree object under test
    rf,     \* the RandomForestClassifier object under test
    reg,    \* the RegressionDecisionTree object under test
    data,   \* the feature matrix X and the vector y the caller holds
    fits,   \* how many fit calls the caller has made
    call    \* the last call made by the caller and how it ended

vars == <<dt, rf, reg, data, fits, call>>

---------------------------------------------------------------------------
(* Bounds of the model.                                                    *)

\* Largest number of rows (and of labels) handed to a fit call.
MaxRows == 3

\* Largest number of fit calls made on one model.
MaxFits == 2

\* Largest integer max_depth a model is constructed with.
MaxDepth == 1

\* Feature indices and feature values of the classification data.
Features == {0, 1}
FeatureValues == {0, 1}

\* Class identifiers.
Classes == {0, 1}

\* max_depth=None of the constructors, as an integer no depth ever equals.
NoneDepth == -1

\* The forest's data: one feature column, at most two rows; the numbers of
\* estimators and the max_depth values a forest is constructed with.
ForestRowCounts == 0..2
EstimatorCounts == 1..4
ForestDepths == {NoneDepth, 0}

\* Largest number of samples handed to one RandomForestClassifier.predict call.
MaxBatch == 2

\* Feature values and targets of the regression data (one feature column),
\* and the min_samples_split values a regression tree is constructed with.
RegFeatureValues == {1, 2, 3}
Targets == {1, 2}
MinSamplesSplits == {1, 2}

\* The numbers of rows handed to one RegressionDecisionTree.predict call.
RegBatchSizes == {0, 1}

Depths == {NoneDepth} \cup (0..MaxDepth)

Samples == [1..Cardinality(Features) -> FeatureValues]

SeqsUpTo(S, n) == UNION {[1..k -> S] : k \in 0..n}

---------------------------------------------------------------------------
(* Generic helpers: numpy indexing and rational arithmetic.                *)

\* a[mask] for a boolean mask of the length of a: the kept elements, in order.
RECURSIVE MaskedUpTo(_, _, _)
MaskedUpTo(a, mask, k) ==
    IF k = 0 THEN <<>>
    ELSE IF mask[k] THEN Append(MaskedUpTo(a, mask, k - 1), a[k])
         ELSE MaskedUpTo(a, mask, k - 1)

Masked(a, mask) == MaskedUpTo(a, mask, Len(a))

Range(s) == {s[i] : i \in 1..Len(s)}

SetMin(S) == CHOOSE m \in S : \A o \in S : m <= o
SetMax(S) == CHOOSE m \in S : \A o \in S : m >= o

\* np.unique(values): the distinct values in ascending order.
RECURSIVE SortedSeq(_)
SortedSeq(S) ==
    IF S = {} THEN <<>>
    ELSE LET m == SetMin(S) IN <<m>> \o SortedSeq(S \ {m})

RECURSIVE SumSeq(_)
SumSeq(s) == IF Len(s) = 0 THEN 0 ELSE s[1] + SumSeq(Tail(s))

Count(s, v) == Cardinality({i \in 1..Len(s) : s[i] = v})

Rat(n, d) == [num |-> n, den |-> d]
RatAdd(a, b) == Rat(a.num * b.den + b.num * a.den, a.den * b.den)
RatLess(a, b) == a.num * b.den < b.num * a.den
RatEq(a, b) == a.num * b.den = b.num * a.den

---------------------------------------------------------------------------
(* The classification helpers.                                             *)

\* The values a DecisionTree's tree field holds: None after construction,
\* a class identifier (a leaf), or a dict (an internal node).
NoneValue == [kind |-> "None"]
ClassValue(c) == [kind |-> "class", value |-> c]

\* np.argmax(np.bincount(y)) for a non-empty y: bincount counts every class
\* of 0..max(y), argmax returns the first position holding the largest count.
ArgmaxHighest(y) ==
    LET counts == [c \in 0..SetMax(Range(y)) |-> Count(y, c)]
    IN  SetMax({c \in DOMAIN counts : \A o \in DOMAIN counts : counts[o] <= counts[c]})

ArgmaxBincount(y) ==
    LET counts == [c \in 0..SetMax(Range(y)) |-> Count(y, c)]
    IN  SetMin({c \in DOMAIN counts : \A o \in DOMAIN counts : counts[o] <= counts[c]})

\* gini_impurity(y) = 1 - sum_c (count_c / n)^2, for a non-empty y.
gini_sum_of_squares(y) ==
    LET n == Len(y)
        squares == [c \in Range(y) |-> Count(y, c) * Count(y, c)]
        cs == SortedSeq(Range(y))
        sumsq == SumSeq([k \in 1..Len(cs) |-> squares[cs[k]]])
    IN  Rat(sumsq, n * n)

gini_impurity(y) ==
    LET n == Len(y)
        squares == [c \in Range(y) |-> Count(y, c) * Count(y, c)]
        cs == SortedSeq(Range(y))
        sumsq == SumSeq([k \in 1..Len(cs) |-> squares[cs[k]]])
    IN  Rat(n * n - sumsq, n * n)

\* The two boolean masks of split_dataset.
LeftMask(X, feature_index, threshold) ==
    [i \in 1..Len(X) |-> X[i][feature_index + 1] <= threshold]

\* A right mask that keeps every row.
RightMaskAll(X, feature_index, threshold) ==
    [i \in 1..Len(X) |-> TRUE]

RightMask(X, feature_index, threshold) ==
    [i \in 1..Len(X) |-> X[i][feature_index + 1] > threshold]

\* split_dataset(X, y, feature_index, threshold), for len(y) = len(X).
split_dataset(X, y, feature_index, threshold) ==
    LET left_indices == LeftMask(X, feature_index, threshold)
        right_indices == RightMask(X, feature_index, threshold)
    IN  [X_left |-> Masked(X, left_indices), X_right |-> Masked(X, right_indices),
         y_left |-> Masked(y, left_indices), y_right |-> Masked(y, right_indices)]

NoSplit == [kind |-> "None"]

\* One iteration of the inner loop of find_best_split: the candidate
\* (feature_index, threshold) against the best split kept so far.
TryCandidateKeepEmpty(X, y, best, feature_index, threshold) ==
    LET s == split_dataset(X, y, feature_index, threshold)
        nl == Len(s.y_left)
        nr == Len(s.y_right)
        gl == IF nl = 0 THEN Rat(1, 1) ELSE gini_impurity(s.y_left)
        gr == IF nr = 0 THEN Rat(1, 1) ELSE gini_impurity(s.y_right)
        weighted_gini == Rat(nl * gl.num * gr.den + nr * gr.num * gl.den,
                             gl.den * gr.den * Len(X))
    IN  IF best.kind = "None" \/ RatLess(weighted_gini, best.gini)
        THEN [kind |-> "split", feature_index |-> feature_index,
              threshold |-> threshold, gini |-> weighted_gini]
        ELSE best

TryCandidateLastWins(X, y, best, feature_index, threshold) ==
    LET s == split_dataset(X, y, feature_index, threshold)
        nl == Len(s.y_left)
        nr == Len(s.y_right)
    IN  IF nl = 0 \/ nr = 0 THEN best
        ELSE LET gl == gini_impurity(s.y_left)
                 gr == gini_impurity(s.y_right)
                 weighted_gini ==
                     Rat(nl * gl.num * gr.den + nr * gr.num * gl.den,
                         gl.den * gr.den * Len(X))
             IN  IF best.kind = "None" \/ ~RatLess(best.gini, weighted_gini)
                 THEN [kind |-> "split", feature_index |-> feature_index,
                       threshold |-> threshold, gini |-> weighted_gini]
                 ELSE best

TryCandidate(X, y, best, feature_index, threshold) ==
    LET s == split_dataset(X, y, feature_index, threshold)
        nl == Len(s.y_left)
        nr == Len(s.y_right)
    IN  IF nl = 0 \/ nr = 0 THEN best
        ELSE LET gl == gini_impurity(s.y_left)
                 gr == gini_impurity(s.y_right)
                 weighted_gini ==
                     Rat(nl * gl.num * gr.den + nr * gr.num * gl.den,
                         gl.den * gr.den * Len(X))
             IN  IF best.kind = "None" \/ RatLess(weighted_gini, best.gini)
                 THEN [kind |-> "split", feature_index |-> feature_index,
                       threshold |-> threshold, gini |-> weighted_gini]
                 ELSE best

RECURSIVE ThresholdLoop(_, _, _, _, _, _)
ThresholdLoop(X, y, best, feature_index, thresholds, k) ==
    IF k > Len(thresholds) THEN best
    ELSE ThresholdLoop(X, y,
                       TryCandidate(X, y, best, feature_index, thresholds[k]),
                       feature_index, thresholds, k + 1)

RECURSIVE FeatureLoop(_, _, _, _)
FeatureLoop(X, y, best, feature_index) ==
    IF feature_index >= Len(X[1]) THEN best
    ELSE LET thresholds == SortedSeq({X[i][feature_index + 1] : i \in 1..Len(X)})
         IN  FeatureLoop(X, y,
                         ThresholdLoop(X, y, best, feature_index, thresholds, 1),
                         feature_index + 1)

\* find_best_split(X, y), for a non-empty X with len(y) = len(X).
find_best_split(X, y) == FeatureLoop(X, y, NoSplit, 0)

---------------------------------------------------------------------------
(* DecisionTree.                                                           *)

\* DecisionTree.__init__(max_depth).
DecisionTree(max_depth) == [max_depth |-> max_depth, tree |-> NoneValue]

Returned(obj) == [raised |-> "", self |-> obj]
Raised(error, obj) == [raised |-> error, self |-> obj]

\* The stopping test of DecisionTree.fit.
StopConditionWithoutClasses(self, X, y, depth) ==
    \/ depth = self.max_depth
    \/ Len(X) <= 1

StopCondition(self, X, y, depth) ==
    \/ depth = self.max_depth
    \/ Len(X) <= 1
    \/ Cardinality(Range(y)) = 1

\* self.tree = np.argmax(np.bincount(y)); np.argmax raises ValueError on
\* the empty count table of an empty y.
MakeLeaf(self, y) ==
    IF Len(y) = 0 THEN Raised("ValueError", self)
    ELSE Returned([self EXCEPT !.tree = ClassValue(ArgmaxBincount(y))])

\* DecisionTree.fit(X, y, depth): the object after the call and the
\* exception it raised, if any.  With len(y) # len(X) the first
\* split_dataset of find_best_split indexes y by a mask of another length,
\* which numpy refuses with IndexError; the children's data are masked from
\* X and y alike and always match.
RECURSIVE DecisionTree_fit(_, _, _, _)
DecisionTree_fit(self, X, y, depth) ==
    IF StopCondition(self, X, y, depth) THEN MakeLeaf(self, y)
    ELSE IF Len(y) # Len(X) THEN Raised("IndexError", self)
    ELSE LET split == find_best_split(X, y) IN
         IF split.kind = "None" THEN MakeLeaf(self, y)
         ELSE LET s == split_dataset(X, y, split.feature_index, split.threshold) IN
              IF Len(s.y_left) = 0 \/ Len(s.y_right) = 0 THEN MakeLeaf(self, y)
              ELSE LET left == DecisionTree_fit(DecisionTree(self.max_depth),
                                                s.X_left, s.y_left, depth + 1)
                       right == DecisionTree_fit(DecisionTree(self.max_depth),
                                                 s.X_right, s.y_right, depth + 1)
                   IN  Returned([self EXCEPT !.tree =
                           [kind |-> "dict",
                            feature_index |-> split.feature_index,
                            threshold |-> split.threshold,
                            left |-> left.self,
                            right |-> right.self]])

\* The branch test of DecisionTree.predict.
GoesLeftStrict(x, feature_index, threshold) == x[feature_index + 1] < threshold

GoesLeft(x, feature_index, threshold) == x[feature_index + 1] <= threshold

\* DecisionTree.predict(x): the value returned and, for the properties,
\* the path walked ("L"/"R" per internal node passed).
RECURSIVE DecisionTree_walk(_, _, _)
DecisionTree_walk(self, x, path) ==
    IF self.tree.kind = "dict"
    THEN IF GoesLeft(x, self.tree.feature_index, self.tree.threshold)
         THEN DecisionTree_walk(self.tree.left, x, Append(path, "L"))
         ELSE DecisionTree_walk(self.tree.right, x, Append(path, "R"))
    ELSE [ret |-> self.tree, path |-> path]

DecisionTree_predict(self, x) == DecisionTree_walk(self, x, <<>>).ret

---------------------------------------------------------------------------
(* The caller of a DecisionTree: construction, fit and predict.            *)

Idle == [op |-> "init"]

WellFormed(X, y) == Len(X) >= 1 /\ Len(y) = Len(X)

\* One more dataset a caller may hold: four rows of one feature, the values
\* 0..3, with the labels 0,0,1,1.
ScenarioData == [X |-> <<<<0>>, <<1>>, <<2>>, <<3>>>>, y |-> <<0, 0, 1, 1>>]

\* And one whose thresholds 0 and 1 give the same weighted Gini.
ThresholdTieData == [X |-> <<<<0>>, <<1>>, <<2>>>>, y |-> <<0, 1, 0>>]

\* A DecisionTree constructed with any max_depth, and a caller holding any
\* feature matrix and label vector within the bounds, lengths matching or
\* not, or the rows of ScenarioData or ThresholdTieData.
InitTree ==
    /\ dt \in {DecisionTree(d) : d \in Depths}
    /\ rf = NoneValue
    /\ reg = NoneValue
    /\ data \in [X : SeqsUpTo(Samples, MaxRows), y : SeqsUpTo(Classes, MaxRows)]
                \cup {ScenarioData, ThresholdTieData}
    /\ fits = 0
    /\ call = Idle

\* dt.fit(X, y) on the caller's data.
DTFit ==
    /\ fits < MaxFits
    /\ LET r == DecisionTree_fit(dt, data.X, data.y, 0) IN
        /\ dt' = r.self
        /\ call' = [op |-> "fit", raised |-> r.raised]
    /\ fits' = fits + 1
    /\ UNCHANGED <<rf, reg, data>>

\* dt.predict(x) for one sample: any sample, or a row of the caller's data.
DTPredict ==
    \E x \in Samples \cup Range(data.X) :
        LET w == DecisionTree_walk(dt, x, <<>>) IN
        /\ call' = [op |-> "predict", x |-> x, raised |-> "",
                    ret |-> w.ret, path |-> w.path]
        /\ UNCHANGED <<dt, rf, reg, data, fits>>

NextTree == DTFit \/ DTPredict

SpecTree == InitTree /\ [][NextTree]_vars

---------------------------------------------------------------------------
(* Properties of the DecisionTree.                                         *)

\* The paths from the root to the leaves of a fitted tree.
RECURSIVE LeafPaths(_)
LeafPaths(self) ==
    IF self.tree.kind = "dict"
    THEN {<<"L">> \o p : p \in LeafPaths(self.tree.left)}
         \cup {<<"R">> \o p : p \in LeafPaths(self.tree.right)}
    ELSE {<<>>}

RECURSIVE SubtreeAt(_, _)
SubtreeAt(self, path) ==
    IF path = <<>> THEN self
    ELSE IF Head(path) = "L" THEN SubtreeAt(self.tree.left, Tail(path))
         ELSE SubtreeAt(self.tree.right, Tail(path))

\* The positions (in the training set) of the rows that the build handed to
\* the node at path: the splits of the nodes above it, replayed with
\* split_dataset on the rows ids of the training set.
RECURSIVE ReachedInBuild(_, _, _, _)
ReachedInBuild(self, X, ids, path) ==
    IF path = <<>> THEN ids
    ELSE LET s == split_dataset(X, ids, self.tree.feature_index, self.tree.threshold)
         IN  IF Head(path) = "L"
             THEN ReachedInBuild(self.tree.left, s.X_left, s.y_left, Tail(path))
             ELSE ReachedInBuild(self.tree.right, s.X_right, s.y_right, Tail(path))

BuildPartition(path) ==
    ReachedInBuild(dt, data.X, [i \in 1..Len(data.X) |-> i], path)

PartitionLabels(path) ==
    LET reached == BuildPartition(path)
    IN  [k \in 1..Len(reached) |-> data.y[reached[k]]]

\* The positions of the training rows that predict routes to the leaf at path.
RoutedByPredict(path) ==
    {i \in 1..Len(data.X) : DecisionTree_walk(dt, data.X[i], <<>>).path = path}

\* c is the most frequent label, and the lowest of the most frequent ones.
IsMajorityLowest(c, labels) ==
    /\ c \in Range(labels)
    /\ \A o \in Range(labels) :
          /\ Count(labels, o) <= Count(labels, c)
          /\ Count(labels, o) = Count(labels, c) => c <= o

PairwiseDistinct(X) == \A i, j \in 1..Len(X) : i # j => X[i] # X[j]

\* fit has returned on well-formed data: the tree is built.
TreeBuilt == WellFormed(data.X, data.y) /\ dt.tree.kind # "None"

\* C3 (as claimed): predict on a DecisionTree on which fit was never called
\* is reported as an error; it never returns a value.
C3_UnfittedPredictIsAnError ==
    (call.op = "predict" /\ fits = 0) => call.raised # ""

\* C4 (as claimed): fit with a label vector of another length than the
\* number of rows, or with zero rows, raises and leaves no trained model.
C4_MalformedFitIsAnError ==
    (call.op = "fit" /\ ~WellFormed(data.X, data.y)) =>
        (call.raised # "" /\ dt.tree = NoneValue)

\* C5: after fit with max_depth=None on pairwise distinct rows, every leaf
\* is pure and predict returns the label of every training row.
C5_TrainingSetRoundTrip ==
    (TreeBuilt /\ dt.max_depth = NoneDepth /\ PairwiseDistinct(data.X)) =>
        /\ \A p \in LeafPaths(dt) : Cardinality(Range(PartitionLabels(p))) = 1
        /\ \A i \in 1..Len(data.X) :
              /\ DecisionTree_predict(dt, data.X[i]) = ClassValue(data.y[i])
              /\ (call.op = "predict" /\ call.x = data.X[i]) =>
                     (call.raised = "" /\ call.ret = ClassValue(data.y[i]))

\* A predict of a training row that passed two internal nodes of a tree
\* built with max_depth=None on three distinct rows.
C5_Witness ==
    /\ TreeBuilt /\ dt.max_depth = NoneDepth /\ PairwiseDistinct(data.X)
    /\ Len(data.X) = 3
    /\ call.op = "predict" /\ Len(call.path) = 2
    /\ \E i \in 1..Len(data.X) :
          call.x = data.X[i] /\ call.ret = ClassValue(data.y[i])

\* C7: in a built tree the training rows predict routes to a leaf are the
\* partition that reached the leaf during build, and the leaf's value is
\* the majority class of their labels, the lowest class on ties.
C7_LeafIsMajorityOfItsPartition ==
    TreeBuilt =>
        /\ \A p \in LeafPaths(dt) :
              /\ RoutedByPredict(p) = Range(BuildPartition(p))
              /\ SubtreeAt(dt, p).tree.kind = "class"
              /\ IsMajorityLowest(SubtreeAt(dt, p).tree.value, PartitionLabels(p))
        /\ call.op = "predict" =>
              /\ call.path \in LeafPaths(dt)
              /\ call.ret = SubtreeAt(dt, call.path).tree

\* A predict that ended in a leaf, below the root, whose partition holds as
\* many labels 0 as labels 1, and returned the lower class.
C7_Witness ==
    /\ TreeBuilt /\ dt.tree.kind = "dict"
    /\ call.op = "predict" /\ Len(call.path) >= 1
    /\ Count(PartitionLabels(call.path), 0) = Count(PartitionLabels(call.path), 1)
    /\ call.ret = ClassValue(0)

\* The paths from the root to the internal nodes of a fitted tree.
RECURSIVE InternalPaths(_)
InternalPaths(self) ==
    IF self.tree.kind = "dict"
    THEN {<<>>} \cup {<<"L">> \o p : p \in InternalPaths(self.tree.left)}
                \cup {<<"R">> \o p : p \in InternalPaths(self.tree.right)}
    ELSE {}

\* The rows that the build handed to the node at path.
PartitionRows(path) ==
    LET reached == BuildPartition(path)
    IN  [k \in 1..Len(reached) |-> data.X[reached[k]]]

\* The candidates of a partition: a feature index with one of the values
\* the rows hold there, such that rows lie on both sides of it.
Candidates(X) ==
    {c \in [feature_index : 0..(Len(X[1]) - 1),
            threshold : {X[i][f] : i \in 1..Len(X), f \in 1..Len(X[1])}] :
        /\ \E i \in 1..Len(X) : X[i][c.feature_index + 1] = c.threshold
        /\ \E i \in 1..Len(X) : X[i][c.feature_index + 1] > c.threshold}

\* (|L| * gini(L) + |R| * gini(R)) / n of a candidate.
WeightedGini(X, y, c) ==
    LET L == {i \in 1..Len(X) : X[i][c.feature_index + 1] <= c.threshold}
        yL == [k \in 1..Cardinality(L) |-> y[SortedSeq(L)[k]]]
        yR == [k \in 1..(Len(X) - Cardinality(L)) |->
                  y[SortedSeq((1..Len(X)) \ L)[k]]]
        scaled(labels) == Rat(Len(labels) * gini_impurity(labels).num,
                              gini_impurity(labels).den)
        total == RatAdd(scaled(yL), scaled(yR))
    IN  Rat(total.num, total.den * Len(X))

\* c comes before o in the order of the search: lower feature index first,
\* then smaller threshold.
SearchedBefore(c, o) ==
    \/ c.feature_index < o.feature_index
    \/ c.feature_index = o.feature_index /\ c.threshold <= o.threshold

\* C12: the split of every internal node of a built tree is the candidate
\* of the node's partition with the minimal weighted Gini and, among those
\* of equal minimal score, the one of the lowest feature index and then the
\* smallest threshold; on the features [[0],[1],[2],[3]] with the labels
\* [0,0,1,1] and max_depth=1 the root splits feature 0 at threshold 1 and
\* its two leaves predict 0 and 1.  (The tree is looked at when fit
\* returns; predict does not change it.)
C12_BestSplitIsFirstMinimalCandidate ==
    /\ (TreeBuilt /\ call.op = "fit") =>
          \A p \in InternalPaths(dt) :
              LET X == PartitionRows(p)
                  y == PartitionLabels(p)
                  node == SubtreeAt(dt, p).tree
                  chosen == [feature_index |-> node.feature_index,
                             threshold |-> node.threshold]
              IN  /\ chosen \in Candidates(X)
                  /\ \A o \in Candidates(X) :
                        /\ ~RatLess(WeightedGini(X, y, o), WeightedGini(X, y, chosen))
                        /\ RatEq(WeightedGini(X, y, o), WeightedGini(X, y, chosen))
                               => SearchedBefore(chosen, o)
    /\ (data = ScenarioData /\ dt.max_depth = 1 /\ fits >= 1) =>
          /\ dt.tree.kind = "dict"
          /\ dt.tree.feature_index = 0 /\ dt.tree.threshold = 1
          /\ dt.tree.left.tree = ClassValue(0)
          /\ dt.tree.right.tree = ClassValue(1)
          /\ call.op = "predict" =>
                call.ret = ClassValue(IF call.x[1] <= 1 THEN 0 ELSE 1)
    /\ (data = ThresholdTieData /\ dt.max_depth # 0 /\ fits >= 1) =>
          /\ dt.tree.kind = "dict"
          /\ dt.tree.feature_index = 0 /\ dt.tree.threshold = 0

\* A predict of the row [2] on the tree fitted with max_depth=1 on the
\* features [[0],[1],[2],[3]] and the labels [0,0,1,1]: it went right at
\* the root's threshold 1 and returned 1.
C12_Witness ==
    /\ data = ScenarioData /\ dt.max_depth = 1 /\ fits >= 1
    /\ dt.tree.kind = "dict" /\ dt.tree.feature_index = 0 /\ dt.tree.threshold = 1
    /\ call.op = "predict" /\ call.x = <<2>>
    /\ call.path = <<"R">> /\ call.ret = ClassValue(1)

\* Every feature column holds one value only in the rows X.
AllColumnsConstant(X) ==
    \A f \in 1..Len(X[1]) : \A i, j \in 1..Len(X) : X[i][f] = X[j][f]

\* C18: in a built tree a node (of at least one sample) at depth d is a
\* leaf exactly when d = max_depth, or it has at most one sample, or its
\* labels hold one class, or all its feature columns are constant; any
\* other node is an internal node with two built children of its max_depth,
\* each on a non-empty partition, one level deeper.  (The tree is looked at
\* when fit returns; predict does not change it.)
C18_NodeIsLeafExactlyWhenStopped ==
    (TreeBuilt /\ call.op = "fit") =>
        /\ call.raised = ""
        /\ \A p \in LeafPaths(dt) \cup InternalPaths(dt) :
              LET X == PartitionRows(p)
                  y == PartitionLabels(p)
                  node == SubtreeAt(dt, p)
              IN  /\ Len(X) >= 1
                  /\ node.tree.kind \in {"class", "dict"}
                  /\ (node.tree.kind = "class") <=>
                         \/ Len(p) = dt.max_depth
                         \/ Len(X) <= 1
                         \/ Cardinality(Range(y)) = 1
                         \/ AllColumnsConstant(X)
                  /\ node.tree.kind = "dict" =>
                         /\ node.tree.left.tree.kind # "None"
                         /\ node.tree.right.tree.kind # "None"
                         /\ node.tree.left.max_depth = dt.max_depth
                         /\ node.tree.right.max_depth = dt.max_depth
                         /\ Len(PartitionRows(Append(p, "L"))) >= 1
                         /\ Len(PartitionRows(Append(p, "R"))) >= 1
                         /\ Len(PartitionRows(Append(p, "L")))
                              + Len(PartitionRows(Append(p, "R"))) = Len(X)

\* A fit with max_depth=1 whose root is an internal node and whose left
\* child, at depth 1, is a leaf only for its depth: it holds two rows of
\* two classes that differ in a feature.
C18_Witness ==
    /\ TreeBuilt /\ call.op = "fit" /\ dt.max_depth = 1
    /\ dt.tree.kind = "dict"
    /\ dt.tree.left.tree.kind = "class"
    /\ Len(PartitionRows(<<"L">>)) = 2
    /\ Cardinality(Range(PartitionLabels(<<"L">>))) = 2
    /\ ~AllColumnsConstant(PartitionRows(<<"L">>))

---------------------------------------------------------------------------
(* RegressionDecisionTree.  A dataset is a sequence of rows, each the      *)
(* feature values followed by the target (the last column).                *)

RECURSIVE Gcd(_, _)
Gcd(a, b) == IF b = 0 THEN a ELSE Gcd(b, a % b)

\* A Python float: the rational num/den in lowest terms.
Float(n, d) == [kind |-> "float", num |-> n \div Gcd(n, d), den |-> d \div Gcd(n, d)]

\* RegressionDecisionTree.__init__(max_depth, min_samples_split).
RegressionDecisionTree(max_depth, min_samples_split) ==
    [max_depth |-> max_depth, min_samples_split |-> min_samples_split,
     tree |-> NoneValue]

\* group[:, -1]
TargetColumn(group) == [k \in 1..Len(group) |-> group[k][Len(group[k])]]

\* np.sum((target - mean) ** 2) with mean = np.mean(target): the terms
\* ((t*n - sum)/n)^2 over the common denominator n^2.
SumOfDeviations(group) ==
    LET target == TargetColumn(group)
        n == Len(target)
        total == SumSeq(target)
    IN  Rat(SumSeq([k \in 1..n |-> target[k] * n - total]), n)

\* The group's squared error divided by its number of rows.
MeanSquaredError(group) ==
    LET target == TargetColumn(group)
        n == Len(target)
        total == SumSeq(target)
    IN  Rat(SumSeq([k \in 1..n |-> (target[k] * n - total) * (target[k] * n - total)]),
            n * n * n)

SquaredError(group) ==
    LET target == TargetColumn(group)
        n == Len(target)
        total == SumSeq(target)
    IN  Rat(SumSeq([k \in 1..n |-> (target[k] * n - total) * (target[k] * n - total)]),
            n * n)

\* _mse(groups): the squared errors of the non-empty groups, added up.
RECURSIVE MseLoop(_, _, _)
MseLoop(groups, mse, k) ==
    IF k > Len(groups) THEN mse
    ELSE IF Len(groups[k]) = 0 THEN MseLoop(groups, mse, k + 1)
         ELSE MseLoop(groups, RatAdd(mse, SquaredError(groups[k])), k + 1)

_mse(groups) == MseLoop(groups, Rat(0, 1), 1)

\* The test of _split that sends a row to the left group.
RowGoesLeftOrEqual(row, index, value) == row[index + 1] <= value

RowGoesLeft(row, index, value) == row[index + 1] < value

\* _split(index, value, dataset): the rows of the left and of the right
\* group, each in dataset order.
_split(index, value, dataset) ==
    <<Masked(dataset, [k \in 1..Len(dataset) |-> RowGoesLeft(dataset[k], index, value)]),
      Masked(dataset, [k \in 1..Len(dataset) |-> ~RowGoesLeft(dataset[k], index, value)])>>

\* The dict _best_split returns when no candidate had two non-empty groups.
NoSplitNode ==
    [kind |-> "dict", index |-> NoneValue, value |-> NoneValue, groups |-> NoneValue]

\* The iteration with "mse <= best_score": the last of equal scores wins.
TryRowLastWins(dataset, best, index, row) ==
    LET groups == _split(index, row[index + 1], dataset) IN
    IF Len(groups[1]) = 0 \/ Len(groups[2]) = 0 THEN best
    ELSE LET mse == _mse(groups) IN
         IF best.node.groups.kind = "None" \/ ~RatLess(best.score, mse)
         THEN [score |-> mse,
               node |-> [kind |-> "dict", index |-> index, value |-> row[index + 1],
                         groups |-> [kind |-> "groups",
                                     left |-> groups[1], right |-> groups[2]]]]
         ELSE best

\* One iteration of the inner loop of _best_split; best carries best_score.
TryRow(dataset, best, index, row) ==
    LET groups == _split(index, row[index + 1], dataset) IN
    IF Len(groups[1]) = 0 \/ Len(groups[2]) = 0 THEN best
    ELSE LET mse == _mse(groups) IN
         IF best.node.groups.kind = "None" \/ RatLess(mse, best.score)
         THEN [score |-> mse,
               node |-> [kind |-> "dict", index |-> index, value |-> row[index + 1],
                         groups |-> [kind |-> "groups",
                                     left |-> groups[1], right |-> groups[2]]]]
         ELSE best

RECURSIVE RowLoop(_, _, _, _)
RowLoop(dataset, best, index, k) ==
    IF k > Len(dataset) THEN best
    ELSE RowLoop(dataset, TryRow(dataset, best, index, dataset[k]), index, k + 1)

RECURSIVE IndexLoop(_, _, _, _)
IndexLoop(dataset, best, index, n_features) ==
    IF index >= n_features THEN best
    ELSE IndexLoop(dataset, RowLoop(dataset, best, index, 1), index + 1, n_features)

\* _best_split(dataset).  An empty dataset has no row to try.
_best_split(dataset) ==
    IF Len(dataset) = 0 THEN NoSplitNode
    ELSE IndexLoop(dataset, [score |-> Rat(1, 0), node |-> NoSplitNode],
                   0, Len(dataset[1]) - 1).node

\* _to_terminal(group), for a non-empty group.
_to_terminal(group) == Float(SumSeq(TargetColumn(group)), Len(group))

NodeReturned(node) == [raised |-> "", node |-> node]
NodeRaised(error, node) == [raised |-> error, node |-> node]

\* The depth test with "depth > self.max_depth".
DepthLimitReachedStrict(self, depth) ==
    self.max_depth # NoneDepth /\ self.max_depth # 0 /\ depth > self.max_depth

\* "self.max_depth and depth >= self.max_depth": None and 0 are both falsy.
DepthLimitReached(self, depth) ==
    self.max_depth # NoneDepth /\ self.max_depth # 0 /\ depth >= self.max_depth

\* The size test of _split_node that makes a child a terminal.
ChildIsTerminalStrict(self, group) == Len(group) < self.min_samples_split

ChildIsTerminal(self, group) == Len(group) <= self.min_samples_split

\* _split_node(node, depth): the node as the call leaves it (it is mutated
\* in place, so a raise leaves what was assigned so far) and the exception
\* raised, if any.  Unpacking the groups of a node without a split (None)
\* raises TypeError before anything is assigned.  With an empty group,
\* np.vstack of an array of shape (0,) and one of shape (n, k) raises
\* ValueError after the groups were deleted.
RECURSIVE _split_node(_, _, _)
_split_node(self, node, depth) ==
    IF node.groups.kind = "None" THEN NodeRaised("TypeError", node)
    ELSE
    LET left == node.groups.left
        right == node.groups.right
        n0 == [kind |-> "dict", index |-> node.index, value |-> node.value]
        WithLeft(l) == [kind |-> "dict", index |-> node.index, value |-> node.value,
                        left |-> l]
        WithBoth(l, r) == [kind |-> "dict", index |-> node.index, value |-> node.value,
                           left |-> l, right |-> r]
    IN
    IF Len(left) = 0 \/ Len(right) = 0 THEN NodeRaised("ValueError", n0)
    ELSE IF DepthLimitReached(self, depth)
    THEN NodeReturned(WithBoth(_to_terminal(left), _to_terminal(right)))
    ELSE
    LET l == IF ChildIsTerminal(self, left) THEN NodeReturned(_to_terminal(left))
             ELSE _split_node(self, _best_split(left), depth + 1)
    IN
    IF l.raised # "" THEN NodeRaised(l.raised, WithLeft(l.node))
    ELSE
    LET r == IF ChildIsTerminal(self, right) THEN NodeReturned(_to_terminal(right))
             ELSE _split_node(self, _best_split(right), depth + 1)
    IN  [raised |-> r.raised, node |-> WithBoth(l.node, r.node)]

\* np.hstack((X, y.reshape(-1, 1))), for len(y) = len(X).
Hstack(X, y) == [k \in 1..Len(X) |-> Append(X[k], y[k])]

\* RegressionDecisionTree.fit(X, y).  np.hstack raises ValueError when X and
\* y differ in their number of rows, before self.tree is assigned.
RegressionDecisionTree_fit(self, X, y) ==
    IF Len(X) # Len(y) THEN Raised("ValueError", self)
    ELSE LET r == _split_node(self, _best_split(Hstack(X, y)), 1)
         IN  [raised |-> r.raised, self |-> [self EXCEPT !.tree = r.node]]

\* The branch test of _predict.
PredictGoesLeft(row, index, value) == row[index + 1] < value

\* _predict(node, row): the value returned, the exception raised, if any,
\* and, for the properties, the path walked.  Subscripting None
\* (self.tree before fit) raises TypeError, comparing with the None value of
\* a node without a split raises TypeError, and a child that was never
\* assigned raises KeyError.
RECURSIVE _predict(_, _, _)
_predict(node, row, path) ==
    IF node.kind = "None" THEN [raised |-> "TypeError", ret |-> NoneValue, path |-> path]
    ELSE IF "groups" \in DOMAIN node /\ node.groups.kind = "None"
    THEN [raised |-> "TypeError", ret |-> NoneValue, path |-> path]
    ELSE LET side == IF PredictGoesLeft(row, node.index, node.value)
                     THEN "left" ELSE "right"
             step == Append(path, IF side = "left" THEN "L" ELSE "R")
         IN  IF side \notin DOMAIN node
             THEN [raised |-> "KeyError", ret |-> NoneValue, path |-> path]
             ELSE IF node[side].kind = "dict" THEN _predict(node[side], row, step)
             ELSE [raised |-> "", ret |-> node[side], path |-> step]

\* RegressionDecisionTree.predict(X): the array of the rows' predictions; the
\* first row whose _predict raises ends the call.
RECURSIVE PredictRows(_, _, _, _)
PredictRows(self, X, k, acc) ==
    IF k > Len(X) THEN [raised |-> "", ret |-> acc.ret, paths |-> acc.paths]
    ELSE LET p == _predict(self.tree, X[k], <<>>) IN
         IF p.raised # "" THEN [raised |-> p.raised, ret |-> NoneValue, paths |-> <<>>]
         ELSE PredictRows(self, X, k + 1,
                          [ret |-> Append(acc.ret, p.ret), paths |-> Append(acc.paths, p.path)])

RegressionDecisionTree_predict(self, X) ==
    PredictRows(self, X, 1, [ret |-> <<>>, paths |-> <<>>])

---------------------------------------------------------------------------
(* The caller of a RegressionDecisionTree.                                 *)

RegSamples == [1..1 -> RegFeatureValues]

\* The data a caller may hold: every feature matrix with every target
\* vector of its length, and, of the vectors of another length, those that
\* hold one target value only (their content is never read).
RegData ==
    {d \in [X : SeqsUpTo(RegSamples, MaxRows), y : SeqsUpTo(Targets, MaxRows)] :
        Len(d.y) = Len(d.X) \/ \A k \in 1..Len(d.y) : d.y[k] = 1}

\* The max_depth values of the regression caller: a limit of 2 lets the
\* root's children be split and stops the recursion below them.
RegDepths == Depths \cup {2}

\* Four rows whose root split leaves three rows on the left, which split
\* again into two rows and one.
FourRowData ==
    [X |-> <<<<1>>, <<1>>, <<2>>, <<3>>>>, y |-> <<1, 1, 1, 2>>]

InitReg ==
    /\ reg \in {RegressionDecisionTree(d, m) : d \in RegDepths, m \in MinSamplesSplits}
    /\ dt = NoneValue
    /\ rf = NoneValue
    /\ data \in RegData \cup {FourRowData}
    /\ fits = 0
    /\ call = Idle

\* reg.fit(X, y) on the caller's data.
RegFit ==
    /\ fits < MaxFits
    /\ LET r == RegressionDecisionTree_fit(reg, data.X, data.y) IN
        /\ reg' = r.self
        /\ call' = [op |-> "fit", raised |-> r.raised]
    /\ fits' = fits + 1
    /\ UNCHANGED <<dt, rf, data>>

\* reg.predict(X) for a batch of samples.
RegPredict ==
    \E X \in UNION {[1..n -> RegSamples] : n \in RegBatchSizes} :
        LET r == RegressionDecisionTree_predict(reg, X) IN
        /\ call' = [op |-> "predict", X |-> X, raised |-> r.raised,
                    ret |-> r.ret, paths |-> r.paths]
        /\ UNCHANGED <<dt, rf, reg, data, fits>>

NextReg == RegFit \/ RegPredict

SpecReg == InitReg /\ [][NextReg]_vars

---------------------------------------------------------------------------
(* Properties of the RegressionDecisionTree.                               *)

\* A node of a regression tree is complete when it has a split, both
\* children, and no groups left.
RECURSIVE Complete(_)
Complete(node) ==
    /\ node.kind = "dict"
    /\ DOMAIN node = {"kind", "index", "value", "left", "right"}
    /\ node.left.kind = "dict" => Complete(node.left)
    /\ node.right.kind = "dict" => Complete(node.right)

\* The paths from the root of a complete regression tree to its leaves.
RECURSIVE RegLeafPaths(_)
RegLeafPaths(node) ==
    (IF node.left.kind = "dict" THEN {<<"L">> \o p : p \in RegLeafPaths(node.left)}
     ELSE {<<"L">>})
    \cup
    (IF node.right.kind = "dict" THEN {<<"R">> \o p : p \in RegLeafPaths(node.right)}
     ELSE {<<"R">>})

RECURSIVE RegChildAt(_, _)
RegChildAt(node, path) ==
    IF path = <<>> THEN node
    ELSE RegChildAt(IF Head(path) = "L" THEN node.left ELSE node.right, Tail(path))

\* The positions (in the training set) of the rows that the build put into
\* the group of the child at path: the splits of the nodes on the path,
\* replayed with _split on the training rows, each followed by its position.
RECURSIVE RegReachedInBuild(_, _, _)
RegReachedInBuild(node, rows, path) ==
    IF path = <<>> THEN [k \in 1..Len(rows) |-> rows[k][Len(rows[k])]]
    ELSE LET groups == _split(node.index, node.value, rows)
         IN  IF Head(path) = "L"
             THEN RegReachedInBuild(node.left, groups[1], Tail(path))
             ELSE RegReachedInBuild(node.right, groups[2], Tail(path))

RegBuildPartition(path) ==
    RegReachedInBuild(reg.tree,
                      [i \in 1..Len(data.X) |-> Append(data.X[i], i)], path)

\* The positions of the training rows that _predict routes to the leaf at path.
RegRoutedByPredict(path) ==
    {i \in 1..Len(data.X) : _predict(reg.tree, data.X[i], <<>>).path = path}

\* v is the arithmetic mean of the targets at the positions ids.
IsMeanOfTargets(v, ids) ==
    /\ ids # {}
    /\ v.kind = "float"
    /\ v.num * Cardinality(ids) = v.den * SumSeq([k \in 1..Len(SortedSeq(ids)) |->
                                                    data.y[SortedSeq(ids)[k]]])

\* fit has returned on well-formed data.
RegTreeBuilt ==
    /\ WellFormed(data.X, data.y)
    /\ fits >= 1
    /\ Complete(reg.tree)

\* C2 (as claimed): fit never raises for well-formed input (matching
\* lengths, at least one row) and leaves a trained model.
C2_FitNeverRaisesOnWellFormedInput ==
    (call.op = "fit" /\ WellFormed(data.X, data.y)) =>
        (call.raised = "" /\ Complete(reg.tree))

\* C6: fit with min_samples_split=1 and max_depth=None on two or more rows
\* without duplicate feature rows builds a tree whose every leaf holds
\* exactly one training row, and predict returns the exact target of every
\* training row.
C6_PerfectInterpolation ==
    (/\ fits >= 1 /\ WellFormed(data.X, data.y)
     /\ reg.min_samples_split = 1 /\ reg.max_depth = NoneDepth
     /\ Len(data.X) >= 2 /\ PairwiseDistinct(data.X)) =>
        /\ call.op = "fit" => call.raised = ""
        /\ Complete(reg.tree)
        /\ \A p \in RegLeafPaths(reg.tree) : Len(RegBuildPartition(p)) = 1
        /\ \A i \in 1..Len(data.X) :
              /\ _predict(reg.tree, data.X[i], <<>>).raised = ""
              /\ _predict(reg.tree, data.X[i], <<>>).ret = Float(data.y[i], 1)
        /\ call.op = "predict" =>
              /\ call.raised = ""
              /\ \A k \in 1..Len(call.X) : \A i \in 1..Len(data.X) :
                    call.X[k] = data.X[i] => call.ret[k] = Float(data.y[i], 1)

\* A predict of the training row [3] of the features [[1],[2],[3]] with the
\* targets [1,2,1]: it passed two internal nodes and returned 1.
C6_Witness ==
    /\ fits >= 1
    /\ reg.min_samples_split = 1 /\ reg.max_depth = NoneDepth
    /\ data = [X |-> <<<<1>>, <<2>>, <<3>>>>, y |-> <<1, 2, 1>>]
    /\ call.op = "predict" /\ call.X = <<<<3>>>>
    /\ call.ret = <<Float(1, 1)>>
    /\ Len(call.paths[1]) = 2

\* C8: in a built regression tree every leaf's value is the arithmetic mean
\* of the targets of exactly the training rows _predict routes to it, and
\* those rows are the group the build made the leaf from.
C8_LeafIsMeanOfRoutedRows ==
    RegTreeBuilt =>
        /\ \A p \in RegLeafPaths(reg.tree) :
              /\ IsMeanOfTargets(RegChildAt(reg.tree, p), RegRoutedByPredict(p))
              /\ RegRoutedByPredict(p) = Range(RegBuildPartition(p))
        /\ (call.op = "predict" /\ call.raised = "") =>
              \A k \in 1..Len(call.X) :
                  /\ call.paths[k] \in RegLeafPaths(reg.tree)
                  /\ call.ret[k] = RegChildAt(reg.tree, call.paths[k])

\* A predict of a training row whose feature value equals the root's
\* threshold: it went right, to a leaf holding the mean of two targets.
C8_Witness ==
    /\ RegTreeBuilt
    /\ call.op = "predict" /\ call.raised = "" /\ Len(call.X) = 1
    /\ call.X[1][reg.tree.index + 1] = reg.tree.value
    /\ call.paths[1] = <<"R">>
    /\ \E i \in 1..Len(data.X) : data.X[i] = call.X[1]
    /\ Cardinality(RegRoutedByPredict(<<"R">>)) = 2
    /\ call.ret[1].den = 2

\* The paths from the root of a regression tree to its children, leaves and
\* internal nodes alike, as far as the build assigned them.
RECURSIVE RegChildPaths(_)
RegChildPaths(node) ==
    LET below(side, step) ==
            IF side \notin DOMAIN node THEN {}
            ELSE {<<step>>} \cup
                 (IF node[side].kind = "dict"
                  THEN {<<step>> \o p : p \in RegChildPaths(node[side])}
                  ELSE {})
    IN  below("left", "L") \cup below("right", "R")

\* The rows (features and target) of the partition the build made the node
\* at path from; the whole dataset at the root.
RegPartitionRows(path) ==
    LET reached == RegBuildPartition(path)
    IN  [k \in 1..Len(reached) |-> Append(data.X[reached[k]], data.y[reached[k]])]

\* Some value of some feature column has rows below it and rows not below it.
AdmitsValidSplit(rows) ==
    \E f \in 1..(Len(rows[1]) - 1) : \E i, j \in 1..Len(rows) : rows[i][f] < rows[j][f]

\* v is the arithmetic mean of the targets of rows.
IsMeanOfRows(v, rows) ==
    /\ v.kind = "float"
    /\ v.num * Len(rows) = v.den * SumSeq(TargetColumn(rows))

\* C16 (as claimed): min_samples_split is the least number of rows a node
\* is split with: a child whose partition holds exactly min_samples_split
\* rows, admits a valid split and lies within the depth budget (max_depth
\* is None or above the depth of the _split_node call that makes it) is an
\* internal node.
C16_ChildOfMinSamplesIsSplit ==
    RegTreeBuilt =>
        \A p \in RegChildPaths(reg.tree) :
            (/\ Len(RegPartitionRows(p)) = reg.min_samples_split
             /\ AdmitsValidSplit(RegPartitionRows(p))
             /\ (reg.max_depth = NoneDepth \/ Len(p) < reg.max_depth))
            => RegChildAt(reg.tree, p).kind = "dict"

\* C17 (as claimed): a partition without a valid split that _best_split is
\* called on (the root's, or a child's of more than min_samples_split
\* rows) does not make fit fail: it becomes a leaf holding the mean of its
\* targets.
C17_DegeneratePartitionBecomesLeaf ==
    (call.op = "fit" /\ WellFormed(data.X, data.y)) =>
        \A p \in {<<>>} \cup RegChildPaths(reg.tree) :
            (/\ ~AdmitsValidSplit(RegPartitionRows(p))
             /\ (p = <<>> \/ Len(RegPartitionRows(p)) > reg.min_samples_split))
            => /\ call.raised = ""
               /\ IsMeanOfRows(RegChildAt(reg.tree, p), RegPartitionRows(p))

\* C19 (as claimed): with max_depth an integer, 0 included, a node whose
\* _split_node call runs at a depth >= max_depth (the root's at depth 1, a
\* child's one deeper than its parent's) has two terminals holding the
\* means of its two groups.
C19_DepthLimitMakesTerminals ==
    (RegTreeBuilt /\ reg.max_depth # NoneDepth) =>
        \A p \in {<<>>} \cup RegChildPaths(reg.tree) :
            (RegChildAt(reg.tree, p).kind = "dict" /\ Len(p) + 1 >= reg.max_depth)
            => /\ IsMeanOfRows(RegChildAt(reg.tree, p).left,
                               RegPartitionRows(Append(p, "L")))
               /\ IsMeanOfRows(RegChildAt(reg.tree, p).right,
                               RegPartitionRows(Append(p, "R")))

\* C20 (as claimed): after fit on a dataset that admits a valid split the
\* root is an internal node with its split and its two children, whatever
\* min_samples_split and max_depth are.
C20_RootIsAlwaysSplit ==
    (call.op = "fit" /\ WellFormed(data.X, data.y)
     /\ AdmitsValidSplit(Hstack(data.X, data.y))) =>
        /\ reg.tree.kind = "dict"
        /\ reg.tree.index \in 0..(Len(data.X[1]) - 1)
        /\ {"left", "right"} \subseteq DOMAIN reg.tree

\* C26 (as claimed): when fit ends, by returning or by raising, self.tree
\* is the value it had before the call or a complete tree: every internal
\* node has its index, its value, a left and a right child and no groups.
C26_NoPartialTreeAfterFit ==
    [][RegFit => (reg'.tree = reg.tree \/ Complete(reg'.tree))]_vars

---------------------------------------------------------------------------
(* RandomForestClassifier.                                                 *)

\* RandomForestClassifier.__init__(n_estimators, max_depth).
RandomForestClassifier(n_estimators, max_depth) ==
    [n_estimators |-> n_estimators, max_depth |-> max_depth, trees |-> <<>>]

\* The values np.random.choice(n_samples, n_samples, replace=True) can
\* return: n_samples indices of 0..n_samples-1.
IndexVectors(n_samples) == [1..n_samples -> 0..(n_samples - 1)]

\* bootstrap_sample(X, y) for the drawn indices: X[indices], y[indices].
\* Indexing y by an index that is not below len(y) raises IndexError.
bootstrap_sample_unpaired(X, y, indices) ==
    IF \E k \in 1..Len(indices) : indices[k] >= Len(y)
    THEN [raised |-> "IndexError", X |-> <<>>, y |-> <<>>]
    ELSE [raised |-> "",
          X |-> [k \in 1..Len(indices) |-> X[indices[k] + 1]],
          y |-> y]

bootstrap_sample(X, y, indices) ==
    IF \E k \in 1..Len(indices) : indices[k] >= Len(y)
    THEN [raised |-> "IndexError", X |-> <<>>, y |-> <<>>]
    ELSE [raised |-> "",
          X |-> [k \in 1..Len(indices) |-> X[indices[k] + 1]],
          y |-> [k \in 1..Len(indices) |-> y[indices[k] + 1]]]

\* One iteration of the loop of RandomForestClassifier.fit, up to the
\* append: the tree built on the sample of the drawn indices, or the
\* exception bootstrap_sample or tree.fit raised.
BuildEstimator(self, X, y, indices) ==
    LET sample == bootstrap_sample(X, y, indices) IN
    IF sample.raised # "" THEN [raised |-> sample.raised, tree |-> NoneValue]
    ELSE LET r == DecisionTree_fit(DecisionTree(self.max_depth), sample.X, sample.y, 0)
         IN  [raised |-> r.raised, tree |-> r.self]

\* "self.trees = []" at the start of fit.
KeepTrees(self) == self

ResetTrees(self) == [self EXCEPT !.trees = <<>>]

\* The loop of fit over the estimators' outcomes, in order: each tree is
\* appended; the first exception ends the call with the trees appended so far.
RECURSIVE EstimatorLoop(_, _, _)
EstimatorLoop(self, outcomes, k) ==
    IF k > Len(outcomes) THEN Returned(self)
    ELSE IF outcomes[k].raised # "" THEN Raised(outcomes[k].raised, self)
    ELSE EstimatorLoop([self EXCEPT !.trees = Append(self.trees, outcomes[k].tree)],
                       outcomes, k + 1)

\* The trees of the iterations that ran to their append, in build order.
BuiltTrees(outcomes) ==
    LET failed == {k \in 1..Len(outcomes) : outcomes[k].raised # ""}
        n == IF failed = {} THEN Len(outcomes) ELSE SetMin(failed) - 1
    IN  [k \in 1..n |-> outcomes[k].tree]

\* RandomForestClassifier.fit(X, y), given the outcome of each iteration.
RandomForestClassifier_fit(self, outcomes) ==
    EstimatorLoop(ResetTrees(self), outcomes, 1)

\* np.bincount(column).argmax() of one column of tree_predictions.
MajorityVoteHighest(column) == ArgmaxHighest(column)

MajorityVote(column) == ArgmaxBincount(column)

\* The list "[tree.predict(x) for x in X for tree in self.trees]": x is the
\* outer loop, so position k (0-based) holds tree k mod T on sample k div T.
FlatPredictions(self, X) ==
    LET T == Len(self.trees) IN
    [k \in 1..(Len(X) * T) |->
        DecisionTree_predict(self.trees[((k - 1) % T) + 1], X[((k - 1) \div T) + 1]).value]

\* .reshape(T, -1): row r, column c (0-based) is position r*N + c of the
\* flat list.
Reshape(flat, T, N) ==
    [r \in 1..T |-> [c \in 1..N |-> flat[(r - 1) * N + c]]]

\* RandomForestClassifier.predict(X).  Without trees, reshape(0, -1) of the
\* empty array cannot infer the second dimension and raises ValueError.
RandomForestClassifier_predict(self, X) ==
    LET T == Len(self.trees)
        N == Len(X)
    IN  IF T = 0 THEN [raised |-> "ValueError", ret |-> NoneValue]
        ELSE LET tree_predictions == Reshape(FlatPredictions(self, X), T, N)
                 majority_vote ==
                     [i \in 1..N |-> MajorityVote([r \in 1..T |-> tree_predictions[r][i]])]
             IN  [raised |-> "", ret |-> majority_vote]

---------------------------------------------------------------------------
(* The caller of a RandomForestClassifier.                                 *)

ForestSamples == [1..1 -> FeatureValues]

ForestSeqs(S) == UNION {[1..k -> S] : k \in ForestRowCounts}

InitForest ==
    /\ rf \in {RandomForestClassifier(n, d) : n \in EstimatorCounts, d \in ForestDepths}
    /\ dt = NoneValue
    /\ reg = NoneValue
    /\ data \in [X : ForestSeqs(ForestSamples), y : ForestSeqs(Classes)]
    /\ fits = 0
    /\ call = Idle

\* rf.fit(X, y) on the caller's data, for every draw of the bootstrap
\* indices of every estimator.  (Draws that build the same tree are one
\* outcome.)  A fit that follows a predict leads where the fit before that
\* predict leads, predict changing nothing of the forest, so fit is taken
\* from the states a construction or a fit left.
RFFit ==
    /\ fits < MaxFits
    /\ call.op # "predict"
    /\ LET possible == {BuildEstimator(rf, data.X, data.y, indices) :
                            indices \in IndexVectors(Len(data.X))}
       IN  \E outcomes \in [1..rf.n_estimators -> possible] :
               LET r == RandomForestClassifier_fit(rf, outcomes) IN
               /\ rf' = r.self
               /\ call' = [op |-> "fit", raised |-> r.raised,
                           built |-> BuiltTrees(outcomes)]
    /\ fits' = fits + 1
    /\ UNCHANGED <<dt, reg, data>>

\* rf.predict(X) for a batch of samples.
RFPredict ==
    \E X \in SeqsUpTo(ForestSamples, MaxBatch) :
        LET r == RandomForestClassifier_predict(rf, X) IN
        /\ call' = [op |-> "predict", X |-> X, raised |-> r.raised, ret |-> r.ret]
        /\ UNCHANGED <<dt, rf, reg, data, fits>>

NextForest == RFFit \/ RFPredict

SpecForest == InitForest /\ [][NextForest]_vars

---------------------------------------------------------------------------
(* Properties of the RandomForestClassifier.                               *)

\* What each tree of the forest predicts for the sample x, in tree order.
Votes(x) ==
    [t \in 1..Len(rf.trees) |-> DecisionTree_predict(rf.trees[t], x).value]

\* C1 (as claimed): predict on a fitted forest returns, at every position of
\* the batch, the class most of the trees predict for that sample (the
\* lowest class on ties), for batches of any size.
C1_PredictIsMajorityPerSample ==
    (call.op = "predict" /\ Len(rf.trees) >= 1 /\ Len(call.X) >= 1) =>
        /\ call.raised = ""
        /\ Len(call.ret) = Len(call.X)
        /\ \A i \in 1..Len(call.X) : IsMajorityLowest(call.ret[i], Votes(call.X[i]))

\* C9: after a fit call that returned, the first or a later one, the forest
\* holds exactly n_estimators trees, those the call built, in build order,
\* each constructed with the forest's max_depth.
C9_ForestHoldsItsEstimators ==
    (call.op = "fit" /\ call.raised = "") =>
        /\ Len(rf.trees) = rf.n_estimators
        /\ rf.trees = call.built
        /\ \A t \in 1..Len(rf.trees) :
              /\ rf.trees[t].max_depth = rf.max_depth
              /\ rf.trees[t].tree.kind # "None"

\* A second fit that returned, on a forest of three estimators whose trees
\* are not all the same.
C9_Witness ==
    /\ call.op = "fit" /\ call.raised = "" /\ fits = 2
    /\ rf.n_estimators = 3 /\ Len(rf.trees) = 3
    /\ rf.trees[1] # rf.trees[2]
    /\ rf.trees[1].tree.kind = "dict"

\* C10: for a single queried sample predict returns the class with the most
\* votes of the trees, and the lowest class identifier among the classes
\* that tie for the most votes.
C10_SingleSampleVoteTieBreak ==
    (call.op = "predict" /\ Len(rf.trees) >= 1 /\ Len(call.X) = 1) =>
        /\ call.raised = ""
        /\ Len(call.ret) = 1
        /\ IsMajorityLowest(call.ret[1], Votes(call.X[1]))
        /\ Votes(call.X[1]) = <<0, 1, 1>> => call.ret[1] = 1
        /\ Votes(call.X[1]) = <<0, 0, 1, 1>> => call.ret[1] = 0

\* A predict of one sample for which four trees vote [0,0,1,1]: a 2-2 tie,
\* answered with class 0.
C10_Witness ==
    /\ call.op = "predict" /\ Len(call.X) = 1 /\ call.raised = ""
    /\ Len(rf.trees) = 4
    /\ Votes(call.X[1]) = <<0, 0, 1, 1>>
    /\ call.ret = <<0>>

---------------------------------------------------------------------------
(* The helper functions called on their own: a caller that holds a feature *)
(* matrix with a vector of labels (targets) of its length and applies one  *)
(* helper to them.                                                         *)

\* The labels (targets) of the helpers' data.
HelperLabels == {0, 1, 2}

\* The numbers of rows of the data bootstrap_sample is applied to.
BootstrapRowCounts == 1..3

\* Four rows of which the second feature splits off two and the first
\* feature three.
PlainSumData ==
    [X |-> <<<<0, 0>>, <<0, 0>>, <<0, 1>>, <<1, 1>>>>, y |-> <<0, 0, 1, 0>>]

HelperData ==
    {d \in [X : SeqsUpTo(Samples, MaxRows), y : SeqsUpTo(HelperLabels, MaxRows)] :
        Len(d.X) >= 1 /\ Len(d.y) = Len(d.X)}
    \cup {PlainSumData}

InitHelpers ==
    /\ dt = NoneValue
    /\ rf = NoneValue
    /\ reg = NoneValue
    /\ data \in HelperData
    /\ fits = 0
    /\ call = Idle

\* gini_impurity(y)
CallGini ==
    /\ call' = [op |-> "gini_impurity", ret |-> gini_impurity(data.y)]
    /\ UNCHANGED <<dt, rf, reg, data, fits>>

\* find_best_split(X, y)
CallFindBestSplit ==
    /\ call' = [op |-> "find_best_split", ret |-> find_best_split(data.X, data.y)]
    /\ UNCHANGED <<dt, rf, reg, data, fits>>

\* bootstrap_sample(X, y), for every draw of the indices.
CallBootstrap ==
    /\ Len(data.X) \in BootstrapRowCounts
    /\ \E indices \in IndexVectors(Len(data.X)) :
           call' = [op |-> "bootstrap_sample", indices |-> indices,
                    ret |-> bootstrap_sample(data.X, data.y, indices)]
    /\ UNCHANGED <<dt, rf, reg, data, fits>>

\* _best_split(dataset) on the rows of X, each followed by its target.
CallBestSplit ==
    /\ call' = [op |-> "_best_split", ret |-> _best_split(Hstack(data.X, data.y))]
    /\ UNCHANGED <<dt, rf, reg, data, fits>>

\* _mse(groups) on the groups of _split(index, row[index], dataset), for
\* every index and row, as _best_split forms them; one of the two groups
\* may be empty.
CallMse ==
    /\ \E index \in Features : \E k \in 1..Len(data.X) :
           LET groups == _split(index, data.X[k][index + 1], Hstack(data.X, data.y))
           IN  call' = [op |-> "_mse", groups |-> groups, ret |-> _mse(groups)]
    /\ UNCHANGED <<dt, rf, reg, data, fits>>

NextHelpers ==
    CallGini \/ CallFindBestSplit \/ CallBootstrap \/ CallBestSplit \/ CallMse

SpecHelpers == InitHelpers /\ [][NextHelpers]_vars

---------------------------------------------------------------------------
(* Properties of the helper functions.                                     *)

\* C11: a split that find_best_split returns has rows on both sides when
\* the data are split again at its feature and threshold, and the groups
\* that _best_split returns are both non-empty.
C11_SplitterNeverReturnsEmptySide ==
    /\ (call.op = "find_best_split" /\ call.ret.kind # "None") =>
          LET s == split_dataset(data.X, data.y,
                                 call.ret.feature_index, call.ret.threshold)
          IN  /\ Len(s.X_left) >= 1 /\ Len(s.X_right) >= 1
              /\ Len(s.y_left) >= 1 /\ Len(s.y_right) >= 1
              /\ \E i \in 1..Len(data.X) :
                    data.X[i][call.ret.feature_index + 1] <= call.ret.threshold
              /\ \E i \in 1..Len(data.X) :
                    data.X[i][call.ret.feature_index + 1] > call.ret.threshold
    /\ (call.op = "_best_split" /\ call.ret.groups.kind # "None") =>
          /\ Len(call.ret.groups.left) >= 1
          /\ Len(call.ret.groups.right) >= 1
          /\ Len(call.ret.groups.left) + Len(call.ret.groups.right) = Len(data.X)

\* find_best_split returned a split of three rows, two of them on its left,
\* although the threshold 1 of the same feature leaves the right side empty.
C11_Witness ==
    /\ call.op = "find_best_split" /\ call.ret.kind = "split"
    /\ Len(data.X) = 3
    /\ \E i \in 1..3 : data.X[i][call.ret.feature_index + 1] = 1
    /\ Cardinality({i \in 1..3 :
           data.X[i][call.ret.feature_index + 1] <= call.ret.threshold}) = 2

\* C13: bootstrap_sample on n rows returns n rows and n labels, every drawn
\* index lies in 0..n-1, and row k and label k of the sample are the row
\* and the label of the input at one and the same drawn index.
C13_BootstrapKeepsRowsAndLabelsPaired ==
    call.op = "bootstrap_sample" =>
        LET n == Len(data.X) IN
        /\ call.ret.raised = ""
        /\ Len(call.indices) = n
        /\ Len(call.ret.X) = n /\ Len(call.ret.y) = n
        /\ \A k \in 1..n :
              /\ call.indices[k] \in 0..(n - 1)
              /\ call.ret.X[k] = data.X[call.indices[k] + 1]
              /\ call.ret.y[k] = data.y[call.indices[k] + 1]

\* A sample of three rows drawn as the indices 2, 0, 2: the last row twice
\* (a duplicate), each time with its own label, which the first row's is not.
C13_Witness ==
    /\ call.op = "bootstrap_sample" /\ call.indices = <<2, 0, 2>>
    /\ data.y[3] # data.y[1] /\ data.X[3] # data.X[1]
    /\ call.ret.X = <<data.X[3], data.X[1], data.X[3]>>
    /\ call.ret.y = <<data.y[3], data.y[1], data.y[3]>>

\* C14: for a non-empty y with k distinct classes gini_impurity(y) is
\* 1 - sum_c p_c^2, lies in [0, 1 - 1/k], and is 0 exactly when all labels
\* are identical.
C14_GiniRange ==
    call.op = "gini_impurity" =>
        LET y == data.y
            n == Len(y)
            k == Cardinality(Range(y))
            g == call.ret
            sumsq == Count(y, 0) * Count(y, 0) + Count(y, 1) * Count(y, 1)
                     + Count(y, 2) * Count(y, 2)
        IN  /\ g.den > 0
            /\ g.num * (n * n) = g.den * (n * n - sumsq)
            /\ g.num >= 0
            /\ g.num * k <= g.den * (k - 1)
            /\ (g.num = 0) <=> (k = 1)

\* gini_impurity of three labels of three classes: 2/3, the upper end
\* 1 - 1/3 of the range.
C14_Witness ==
    /\ call.op = "gini_impurity"
    /\ Len(data.y) = 3 /\ Cardinality(Range(data.y)) = 3
    /\ call.ret.num * 3 = call.ret.den * 2

RegCandidates(dataset) ==
    [index : 0..(Len(dataset[1]) - 2), row : 1..Len(dataset)]

CandidateValue(dataset, c) == dataset[c.row][c.index + 1]

\* The rows below the candidate's threshold and the other rows, each in
\* dataset order.
CandidateLeft(dataset, c) ==
    SelectSeq(dataset, LAMBDA r : r[c.index + 1] < CandidateValue(dataset, c))

CandidateRight(dataset, c) ==
    SelectSeq(dataset, LAMBDA r : ~(r[c.index + 1] < CandidateValue(dataset, c)))

BothSidesNonEmpty(dataset, c) ==
    Len(CandidateLeft(dataset, c)) >= 1 /\ Len(CandidateRight(dataset, c)) >= 1

\* sum t^2 - (sum t)^2 / n of the targets of a non-empty sequence of rows.
SumOfSquaredErrors(rows) ==
    LET t == TargetColumn(rows)
        n == Len(t)
    IN  Rat(n * SumSeq([k \in 1..n |-> t[k] * t[k]]) - SumSeq(t) * SumSeq(t), n)

\* SSE(left) + SSE(right) of a candidate with two non-empty sides.
PlainSum(dataset, c) ==
    RatAdd(SumOfSquaredErrors(CandidateLeft(dataset, c)),
           SumOfSquaredErrors(CandidateRight(dataset, c)))

\* Iteration order: the feature index ascending, then the dataset's rows.
TriedBefore(c, o) ==
    c.index < o.index \/ (c.index = o.index /\ c.row < o.row)

\* c is the first, in iteration order, of the candidates of S with two
\* non-empty sides whose plain sum is minimal.
IsFirstMinimalIn(dataset, S, c) ==
    /\ c \in S /\ BothSidesNonEmpty(dataset, c)
    /\ \A o \in S :
          BothSidesNonEmpty(dataset, o) =>
              /\ ~RatLess(PlainSum(dataset, o), PlainSum(dataset, c))
              /\ TriedBefore(o, c) => RatLess(PlainSum(dataset, c), PlainSum(dataset, o))

\* node is what a search over the candidates S returns: the split of the
\* first minimal candidate with its two groups, or no split.
IsResultOfSearch(node, dataset, S) ==
    IF \E c \in S : BothSidesNonEmpty(dataset, c)
    THEN \E c \in S :
            /\ IsFirstMinimalIn(dataset, S, c)
            /\ node.index = c.index
            /\ node.value = CandidateValue(dataset, c)
            /\ node.groups.kind = "groups"
            /\ node.groups.left = CandidateLeft(dataset, c)
            /\ node.groups.right = CandidateRight(dataset, c)
    ELSE node = NoSplitNode

FirstOccurrences(dataset) ==
    {c \in RegCandidates(dataset) :
        \A k \in 1..(c.row - 1) : dataset[k][c.index + 1] # CandidateValue(dataset, c)}

\* C25: the (index, value, groups) that _best_split returns, trying every
\* row's value, is the result of the search over the first occurrence of
\* each distinct value of each feature.
C25_DuplicateThresholdsAreRedundant ==
    call.op = "_best_split" =>
        LET dataset == Hstack(data.X, data.y)
        IN  IsResultOfSearch(call.ret, dataset, FirstOccurrences(dataset))

\* _best_split returned a split at a threshold that two rows of the dataset
\* hold, with another candidate of the same sum tried after it.
C25_Witness ==
    /\ call.op = "_best_split" /\ call.ret.groups.kind = "groups"
    /\ LET dataset == Hstack(data.X, data.y) IN
       /\ Cardinality({k \in 1..Len(dataset) :
                         dataset[k][call.ret.index + 1] = call.ret.value}) = 2
       /\ FirstOccurrences(dataset) # RegCandidates(dataset)
       /\ \E o \in FirstOccurrences(dataset) :
             /\ BothSidesNonEmpty(dataset, o)
             /\ o.index > call.ret.index
             /\ \A c \in RegCandidates(dataset) :
                   IsFirstMinimalIn(dataset, RegCandidates(dataset), c) =>
                       RatEq(PlainSum(dataset, o), PlainSum(dataset, c))

---------------------------------------------------------------------------
(* The per-child rule of _split_node.                                      *)

\* The _split_node call of the node at path runs at depth Len(path) + 1;
\* it is below the depth limit when max_depth is None or above that depth.
BelowDepthLimit(path) ==
    reg.max_depth = NoneDepth \/ Len(path) + 1 < reg.max_depth

\* node holds the split of a fresh search on rows: the first candidate of
\* minimal plain sum, or no split where rows admit none.
IsFreshSplitOf(node, rows) ==
    IF \E c \in RegCandidates(rows) : BothSidesNonEmpty(rows, c)
    THEN \E c \in RegCandidates(rows) :
            /\ IsFirstMinimalIn(rows, RegCandidates(rows), c)
            /\ node.index = c.index
            /\ node.value = CandidateValue(rows, c)
    ELSE node = NoSplitNode

---------------------------------------------------------------------------
(* A caller that holds a DecisionTree and a RegressionDecisionTree made    *)
(* with the same max_depth and fits both on the same data.                 *)

DepthData ==
    {d \in RegData : WellFormed(d.X, d.y)} \cup {FourRowData}

InitDepth ==
    /\ \E d \in RegDepths, m \in MinSamplesSplits :
          /\ dt = DecisionTree(d)
          /\ reg = RegressionDecisionTree(d, m)
    /\ rf = NoneValue
    /\ data \in DepthData
    /\ fits = 0
    /\ call = Idle

NextDepth == DTFit \/ RegFit

SpecDepth == InitDepth /\ [][NextDepth]_vars

\* The largest number of edges from the root of a classification tree to
\* one of its leaves.
RECURSIVE TreeHeight(_)
TreeHeight(self) ==
    IF self.tree.kind = "dict"
    THEN 1 + SetMax({TreeHeight(self.tree.left), TreeHeight(self.tree.right)})
    ELSE 0

\* The largest number of edges from a node of a regression tree to a child
\* the build assigned below it.
RECURSIVE RegHeight(_)
RegHeight(node) ==
    IF node.kind # "dict" THEN 0
    ELSE SetMax({0} \cup {1 + RegHeight(node[side]) :
                             side \in {"left", "right"} \cap DOMAIN node})

\* The largest edge count of the regression trees that fit builds with
\* max_depth = D over all the caller's data and min_samples_split values.
RegEdgesReached(D) ==
    SetMax({RegHeight(RegressionDecisionTree_fit(RegressionDecisionTree(D, m),
                                                 d.X, d.y).self.tree) :
               d \in DepthData, m \in MinSamplesSplits})

\* The depth limits that the caller's data can exhaust: the edge counts of
\* the trees built without a limit.
ExhaustibleDepths ==
    {D \in RegDepths : D >= 1 /\ D <= RegEdgesReached(NoneDepth)}

\* RegEdgesReached, computed once for each of these limits.
LargestRegEdges == [D \in ExhaustibleDepths |-> RegEdgesReached(D)]

\* C23 (as claimed): with max_depth = D >= 1 no leaf of the classification
\* tree lies more than D edges below the root, and the largest edge count a
\* regression tree with the same D reaches is one level off D.
C23_DepthBudgetOffByOne ==
    (call.op = "fit" /\ dt.max_depth >= 1) =>
        /\ TreeHeight(dt) <= dt.max_depth
        /\ reg.max_depth = dt.max_depth
        /\ dt.max_depth \in ExhaustibleDepths =>
              \/ LargestRegEdges[reg.max_depth] = dt.max_depth + 1
              \/ LargestRegEdges[reg.max_depth] = dt.max_depth - 1

\* C23 (amended): with the same max_depth = D >= 1 no leaf of either tree
\* lies more than D edges below the root, and D is the largest edge count
\* the regression trees reach: the two budgets are equal.
C23_SameDepthBudget ==
    dt.max_depth >= 1 =>
        /\ reg.max_depth = dt.max_depth
        /\ TreeHeight(dt) <= dt.max_depth
        /\ RegHeight(reg.tree) <= reg.max_depth
        /\ \A p \in RegChildPaths(reg.tree) : Len(p) <= reg.max_depth
        /\ dt.max_depth \in ExhaustibleDepths =>
              LargestRegEdges[reg.max_depth] = dt.max_depth

\* Both trees were fitted with max_depth = 2 on the rows [1], [2], [3] with
\* the targets 1, 2, 1, and each has a leaf two edges below its root, under
\* the root's right child.
C23_Witness ==
    /\ dt.max_depth = 2 /\ reg.max_depth = 2 /\ fits = 2
    /\ data = [X |-> <<<<1>>, <<2>>, <<3>>>>, y |-> <<1, 2, 1>>]
    /\ TreeHeight(dt) = 2 /\ dt.tree.right.tree.kind = "dict"
    /\ RegHeight(reg.tree) = 2
    /\ reg.tree.right.kind = "dict" /\ reg.tree.right.left.kind = "float"

---------------------------------------------------------------------------
(* The recursions step by step.  A caller holds one model and runs one     *)
(* call at a time; call.stack holds the activations of the running call,   *)
(* the innermost first, and each step runs the innermost activation up to  *)
(* its next recursive call or its return.  The trees are filled in place,  *)
(* as the code fills them.                                                 *)

\* No call was made yet.
NoCall == [op |-> "init", steps |-> 0, raised |-> "", stack |-> <<>>]

InitSteps ==
    /\ \E d \in RegDepths, m \in MinSamplesSplits :
          \/ dt = DecisionTree(d) /\ reg = NoneValue
          \/ dt = NoneValue /\ reg = RegressionDecisionTree(d, m)
    /\ rf = NoneValue
    /\ data \in DepthData
    /\ fits = 0
    /\ call = NoCall

Running == call.stack # <<>>

Side(step) == IF step = "L" THEN "left" ELSE "right"

\* The DecisionTree object self with the object at path replaced by obj.
RECURSIVE SetSubtree(_, _, _)
SetSubtree(self, path, obj) ==
    IF path = <<>> THEN obj
    ELSE [self EXCEPT !.tree =
             [self.tree EXCEPT ![Side(Head(path))] =
                 SetSubtree(self.tree[Side(Head(path))], Tail(path), obj)]]

\* dt.fit(X, y): the outermost activation, at depth 0.
BeginTreeFit ==
    /\ ~Running /\ dt # NoneValue
    /\ call' = [op |-> "DecisionTree.fit", steps |-> 0, raised |-> "",
                stack |-> <<[path |-> <<>>, X |-> data.X, y |-> data.y, depth |-> 0]>>]
    /\ UNCHANGED <<dt, rf, reg, data, fits>>

\* One activation f of DecisionTree.fit on the object self: the object as
\* the activation leaves it and the calls it makes.  It makes the object a
\* leaf, or a node with two fresh children on which it calls fit, left and
\* then right, at depth + 1.
FitActivation(self, f) ==
    LET split == find_best_split(f.X, f.y)
        s == split_dataset(f.X, f.y, split.feature_index, split.threshold)
    IN  IF \/ StopCondition(self, f.X, f.y, f.depth)
           \/ split.kind = "None"
           \/ Len(s.y_left) = 0 \/ Len(s.y_right) = 0
        THEN [self |-> MakeLeaf(self, f.y).self, calls |-> <<>>]
        ELSE [self |-> [self EXCEPT !.tree =
                           [kind |-> "dict",
                            feature_index |-> split.feature_index,
                            threshold |-> split.threshold,
                            left |-> DecisionTree(self.max_depth),
                            right |-> DecisionTree(self.max_depth)]],
              calls |-> <<[path |-> Append(f.path, "L"), X |-> s.X_left,
                           y |-> s.y_left, depth |-> f.depth + 1],
                          [path |-> Append(f.path, "R"), X |-> s.X_right,
                           y |-> s.y_right, depth |-> f.depth + 1]>>]

\* The innermost activation of the running DecisionTree.fit.
TreeFitStep ==
    /\ Running /\ call.op = "DecisionTree.fit"
    /\ \E r \in {FitActivation(DecisionTree(dt.max_depth), Head(call.stack))} :
          /\ dt' = SetSubtree(dt, Head(call.stack).path, r.self)
          /\ call' = [call EXCEPT !.stack = r.calls \o Tail(@), !.steps = @ + 1]
    /\ UNCHANGED <<rf, reg, data, fits>>

\* dt.predict(x) for a row of the caller's data.
BeginTreePredict ==
    /\ ~Running /\ dt # NoneValue
    /\ \E x \in Range(data.X) :
          call' = [op |-> "DecisionTree.predict", steps |-> 0, raised |-> "",
                   x |-> x, stack |-> <<[at |-> dt]>>]
    /\ UNCHANGED <<dt, rf, reg, data, fits>>

\* One activation of DecisionTree.predict: it calls predict on a child, or
\* returns its leaf.
TreePredictStep ==
    /\ Running /\ call.op = "DecisionTree.predict"
    /\ LET self == Head(call.stack).at IN
       IF self.tree.kind = "dict"
       THEN call' = [call EXCEPT
                        !.stack = <<[at |-> IF GoesLeft(call.x, self.tree.feature_index,
                                                         self.tree.threshold)
                                            THEN self.tree.left ELSE self.tree.right]>>,
                        !.steps = @ + 1]
       ELSE call' = [op |-> call.op, steps |-> call.steps, raised |-> "",
                     x |-> call.x, stack |-> <<>>, ret |-> self.tree]
    /\ UNCHANGED <<dt, rf, reg, data, fits>>

\* The regression node with the child at path replaced by child.
RECURSIVE RegSetAt(_, _, _)
RegSetAt(node, path, child) ==
    IF path = <<>> THEN child
    ELSE [node EXCEPT ![Side(Head(path))] =
             RegSetAt(node[Side(Head(path))], Tail(path), child)]

\* reg.fit(X, y): self.tree is assigned the root's split, then _split_node
\* is called on it at depth 1.
BeginRegFit ==
    /\ ~Running /\ reg # NoneValue
    /\ reg' = [reg EXCEPT !.tree = _best_split(Hstack(data.X, data.y))]
    /\ call' = [op |-> "RegressionDecisionTree.fit", steps |-> 0, raised |-> "",
                stack |-> <<[path |-> <<>>, depth |-> 1, at |-> "start", right |-> <<>>]>>]
    /\ UNCHANGED <<dt, rf, data, fits>>

\* One activation f of _split_node on node, from its start to its first
\* recursive call or its return, or from the return of its left child's
\* call (the activation kept its right group) to its call on the right
\* child or its return: the node as it leaves it, the exception raised, if
\* any, and the calls made, followed by the activation itself where it goes
\* on after its left child's call.
SplitNodeActivation(self, node, f) ==
    LET n0 == [kind |-> "dict", index |-> node.index, value |-> node.value]
        WithLeft(l) == [kind |-> "dict", index |-> node.index, value |-> node.value,
                        left |-> l]
        WithBoth(l, r) == [kind |-> "dict", index |-> node.index,
                           value |-> node.value, left |-> l, right |-> r]
        child(side) == [path |-> Append(f.path, side), depth |-> f.depth + 1,
                        at |-> "start", right |-> <<>>]
        Raise(error, n) == [node |-> n, raised |-> error, calls |-> <<>>]
        Return(n) == [node |-> n, raised |-> "", calls |-> <<>>]
        Call(n, frames) == [node |-> n, raised |-> "", calls |-> frames]
        ProcessRight(l, right) ==
            IF ChildIsTerminal(self, right)
            THEN Return(WithBoth(l, _to_terminal(right)))
            ELSE Call(WithBoth(l, _best_split(right)), <<child("R")>>)
    IN  IF f.at = "right" THEN ProcessRight(node.left, f.right)
        ELSE IF node.groups.kind = "None" THEN Raise("TypeError", node)
        ELSE LET left == node.groups.left
                 right == node.groups.right
             IN  IF Len(left) = 0 \/ Len(right) = 0 THEN Raise("ValueError", n0)
                 ELSE IF DepthLimitReached(self, f.depth)
                 THEN Return(WithBoth(_to_terminal(left), _to_terminal(right)))
                 ELSE IF ChildIsTerminal(self, left)
                 THEN ProcessRight(_to_terminal(left), right)
                 ELSE Call(WithLeft(_best_split(left)),
                           <<child("L"), [path |-> f.path, depth |-> f.depth,
                                          at |-> "right", right |-> right]>>)

\* The innermost activation of the running fit.  An exception ends the
\* whole call.
RegFitStep ==
    /\ Running /\ call.op = "RegressionDecisionTree.fit"
    /\ \E r \in {SplitNodeActivation(reg, RegChildAt(reg.tree, Head(call.stack).path),
                                     Head(call.stack))} :
          /\ reg' = [reg EXCEPT !.tree = RegSetAt(reg.tree, Head(call.stack).path, r.node)]
          /\ call' = [call EXCEPT
                         !.stack = IF r.raised # "" THEN <<>> ELSE r.calls \o Tail(@),
                         !.steps = @ + 1,
                         !.raised = r.raised]
    /\ UNCHANGED <<dt, rf, data, fits>>

\* reg.predict([row]) for a row of the caller's data.
BeginRegPredict ==
    /\ ~Running /\ reg # NoneValue
    /\ \E row \in Range(data.X) :
          call' = [op |-> "RegressionDecisionTree.predict", steps |-> 0, raised |-> "",
                   x |-> row, stack |-> <<[at |-> reg.tree]>>]
    /\ UNCHANGED <<dt, rf, reg, data, fits>>

\* One activation of _predict: it calls _predict on a child, returns a
\* terminal, or raises (on None, on a node without a split, on a child that
\* was never assigned).
RegPredictStep ==
    /\ Running /\ call.op = "RegressionDecisionTree.predict"
    /\ LET node == Head(call.stack).at
           End(error, ret) == call' = [op |-> call.op, steps |-> call.steps,
                                       raised |-> error, x |-> call.x,
                                       stack |-> <<>>, ret |-> ret]
       IN  IF node.kind = "None" THEN End("TypeError", NoneValue)
           ELSE IF "groups" \in DOMAIN node /\ node.groups.kind = "None"
           THEN End("TypeError", NoneValue)
           ELSE LET side == IF PredictGoesLeft(call.x, node.index, node.value)
                            THEN "left" ELSE "right"
                IN  IF side \notin DOMAIN node THEN End("KeyError", NoneValue)
                    ELSE IF node[side].kind = "dict"
                    THEN call' = [call EXCEPT !.stack = <<[at |-> node[side]]>>,
                                              !.steps = @ + 1]
                    ELSE End("", node[side])
    /\ UNCHANGED <<dt, rf, reg, data, fits>>

Step == TreeFitStep \/ TreePredictStep \/ RegFitStep \/ RegPredictStep

NextSteps ==
    \/ BeginTreeFit \/ BeginTreePredict \/ BeginRegFit \/ BeginRegPredict
    \/ Step

\* The position of the running call: every step changes it.
position == <<call.op, call.steps, Len(call.stack)>>

\* A call that was started is run on: the interpreter does not suspend it.
SpecSteps == InitSteps /\ [][NextSteps]_vars /\ WF_position(Step)

---------------------------------------------------------------------------
(* Termination of the recursions.                                          *)

Parent(path) == SubSeq(path, 1, Len(path) - 1)

\* Every activation of DecisionTree.fit holds a non-empty partition, the
\* one the splits above it give, strictly smaller than its parent's.
TreeFitShrinks ==
    \A k \in 1..Len(call.stack) :
        LET f == call.stack[k] IN
        /\ Len(f.X) >= 1 /\ Len(f.y) = Len(f.X)
        /\ f.X = PartitionRows(f.path)
        /\ f.depth = Len(f.path)
        /\ f.path # <<>> => Len(f.X) < Len(PartitionRows(Parent(f.path)))

\* Every activation of _split_node works on a non-empty partition (the two
\* groups of its node, where the node has them), strictly smaller than its
\* parent's.
RegFitShrinks ==
    \A k \in 1..Len(call.stack) :
        LET f == call.stack[k]
            node == RegChildAt(reg.tree, f.path)
            rows == RegPartitionRows(f.path)
        IN  /\ Len(rows) >= 1
            /\ f.depth = Len(f.path) + 1
            /\ (f.at = "start" /\ node.groups.kind = "groups") =>
                  Len(node.groups.left) + Len(node.groups.right) = Len(rows)
            /\ f.path # <<>> => Len(rows) < Len(RegPartitionRows(Parent(f.path)))

\* The variant of the running call: a fit of n rows runs at most 2n - 1
\* activations of DecisionTree.fit (one per node of a binary tree of at most
\* n leaves) and at most 2n steps of _split_node, none deeper than n levels;
\* a predict makes at most as many recursive calls as the tree is high.
C24_Variant ==
    /\ call.op = "DecisionTree.fit" =>
          /\ TreeFitShrinks
          /\ call.steps + Len(call.stack) <= 2 * Len(data.X) - 1
          /\ \A k \in 1..Len(call.stack) : call.stack[k].depth <= Len(data.X) - 1
    /\ call.op = "RegressionDecisionTree.fit" =>
          /\ RegFitShrinks
          /\ call.steps + Len(call.stack) <= 2 * Len(data.X)
          /\ \A k \in 1..Len(call.stack) : call.stack[k].depth <= Len(data.X)
    /\ call.op = "DecisionTree.predict" => call.steps <= TreeHeight(dt)
    /\ call.op = "RegressionDecisionTree.predict" => call.steps <= RegHeight(reg.tree)

\* C24: every call of DecisionTree.fit, RegressionDecisionTree.fit and of
\* the two predicts runs a bounded number of steps, with max_depth=None
\* too: every build activation holds a non-empty partition strictly smaller
\* than its parent's, so a fit of n rows makes at most 2n steps, a predict
\* makes at most tree-depth recursive calls, and every step of a running
\* call counts towards the bound or ends the call (by returning or, for the
\* regression tree, by raising).
C24_EveryCallTerminates ==
    /\ []C24_Variant
    /\ [][Running => (call'.steps = call.steps + 1 \/ ~Running')]_position

\* A fit of a DecisionTree with max_depth=None on three rows ended after
\* five activations, the deepest at depth 2.
C24_Witness ==
    /\ call.op = "DecisionTree.fit" /\ ~Running
    /\ dt.max_depth = NoneDepth /\ Len(data.X) = 3
    /\ call.steps = 5
    /\ TreeHeight(dt) = 2

====
